---- MODULE Spec2Model ----
(***************************************************************************)
(* PriceTrackGo: the per-user product store and its refresh / repair       *)
(* passes.  Two packages of the repository are modelled:                   *)
(*   - package database (src/unnamed/part_000): Connect, UpsertProduct,    *)
(*     UpdatePrices(user, product), UpdateIncompleteRecords(user);         *)
(*   - package main (src/backend/mongo.go): NewMongoDB and the methods of  *)
(*     MongoDB.                                                            *)
(* A session is opened by one of the two; `session` records which.         *)
(*                                                                         *)
(* Strings the code inspects are sequences of tokens: a URL is a sequence  *)
(* of URL fragments (strings.Contains is a search for a contiguous         *)
(* sub-sequence), a scraped price is a sequence of characters              *)
(* (strconv.ParseFloat reads it digit by digit).  Prices are whole         *)
(* numbers.  A Go slice is [nil, elems]: a nil slice is written to the     *)
(* store as BSON null, a non-nil one as a BSON array.  A stored document   *)
(* is a function from the names of the fields it holds to their values,    *)
(* so that an absent field is a name outside its DOMAIN.                   *)
(***************************************************************************)
EXTENDS Integers, Sequences, FiniteSets, TLC

\* ------------------------------------------------------------------ bounds
MaxHist == 2
MaxDocs == 2
MaxClock == 1

\* ------------------------------------------------------------ Go values
NilSlice == [nil |-> TRUE, elems |-> <<>>]

MkSlice(s) == [nil |-> FALSE, elems |-> s]

GoLen(sl) == Len(sl.elems)

\* type Price struct { Value float64; Timestamp time.Time }
Price(v, t) == [value |-> v, timestamp |-> t]

\* type Product struct of package main: five fields, no aggregates.
Product(url, name, image, specs, hist) ==
  [ProductURL |-> url, ProductName |-> name, ImageURL |-> image,
   Specifications |-> specs, PriceHistory |-> hist]

\* models.Product of package database: the document shape with aggregates.
ModelsProduct(url, name, image, specs, hist, mn, mx) ==
  [ProductURL |-> url, ProductName |-> name, ImageURL |-> image,
   Specifications |-> specs, PriceHistory |-> hist,
   MinPrice |-> mn, MaxPrice |-> mx]

\* The zero value of each struct (var product Product).
ZeroProduct == Product(<<>>, "", "", NilSlice, NilSlice)

ZeroModelsProduct == ModelsProduct(<<>>, "", "", NilSlice, NilSlice, 0, 0)

\* ------------------------------------------------------- strings, parsing
\* strings.Contains(s, substr)
Contains(s, sub) ==
  \E i \in 0..(Len(s) - Len(sub)) : SubSeq(s, i + 1, i + Len(sub)) = sub

Flipkart == <<"flipkart">>

Amazon == <<"amazon">>

Digits == {"0", "1", "2", "3", "4", "5", "6", "7", "8", "9"}

DigitVal(c) ==
  CASE c = "0" -> 0 [] c = "1" -> 1 [] c = "2" -> 2 [] c = "3" -> 3
    [] c = "4" -> 4 [] c = "5" -> 5 [] c = "6" -> 6 [] c = "7" -> 7
    [] c = "8" -> 8 [] c = "9" -> 9

RECURSIVE DecimalValue(_)
DecimalValue(s) ==
  IF s = <<>> THEN 0
  ELSE 10 * DecimalValue(SubSeq(s, 1, Len(s) - 1)) + DigitVal(s[Len(s)])

\* strconv.ParseFloat(priceStr, 64) on decimal digit strings: (value, err).
ParseFloat(s) ==
  IF s # <<>> /\ \A i \in 1..Len(s) : s[i] \in Digits
  THEN [value |-> DecimalValue(s), err |-> FALSE]
  ELSE [value |-> 0, err |-> TRUE]

\* ------------------------------------------------------------ BSON, store
\* bson.Marshal of a main.Product (struct tags of mongo.go): every field is
\* written, a nil slice as null.
MarshalProduct(p) ==
  [product_url |-> p.ProductURL, product_name |-> p.ProductName,
   image_url |-> p.ImageURL, specifications |-> p.Specifications,
   price_history |-> p.PriceHistory]

\* bson.Marshal of a models.Product: the persisted document shape.
MarshalModelsProduct(p) ==
  [product_url |-> p.ProductURL, product_name |-> p.ProductName,
   image_url |-> p.ImageURL, specifications |-> p.Specifications,
   price_history |-> p.PriceHistory,
   min_price |-> p.MinPrice, max_price |-> p.MaxPrice]

Has(doc, f) == f \in DOMAIN doc

\* The value a field decodes to: the zero value when the field is absent.
FieldOr(doc, f, zero) == IF Has(doc, f) THEN doc[f] ELSE zero

\* Decode(&product) into a main.Product.
DecodeProduct(doc) ==
  Product(FieldOr(doc, "product_url", <<>>), FieldOr(doc, "product_name", ""),
          FieldOr(doc, "image_url", ""), FieldOr(doc, "specifications", NilSlice),
          FieldOr(doc, "price_history", NilSlice))

\* Decode(&product) into a models.Product.
DecodeModelsProduct(doc) ==
  ModelsProduct(FieldOr(doc, "product_url", <<>>), FieldOr(doc, "product_name", ""),
                FieldOr(doc, "image_url", ""), FieldOr(doc, "specifications", NilSlice),
                FieldOr(doc, "price_history", NilSlice),
                FieldOr(doc, "min_price", 0), FieldOr(doc, "max_price", 0))

\* {"$set": fields} applied to a document.
ApplySet(doc, fields) ==
  [f \in DOMAIN doc \cup DOMAIN fields |->
     IF f \in DOMAIN fields THEN fields[f] ELSE doc[f]]

\* {"$push": {"price_history": newPrice}}: the server rejects a field that
\* holds a non-array (null); an absent field becomes a one-element array.
PushRejected(doc) == Has(doc, "price_history") /\ doc.price_history.nil

\* The new price is put in front of the history.
ApplyPushFront(doc, newPrice) ==
  ApplySet(doc, [price_history |->
     MkSlice(<<newPrice>> \o FieldOr(doc, "price_history", NilSlice).elems)])

ApplyPush(doc, newPrice) ==
  ApplySet(doc, [price_history |->
     MkSlice(Append(FieldOr(doc, "price_history", NilSlice).elems, newPrice))])

\* The first document matching {"product_url": url}, in natural order; 0
\* when there is none (mongo.ErrNoDocuments for FindOne).
FirstMatch(coll, url) ==
  IF \E i \in 1..Len(coll) : coll[i].product_url = url
  THEN CHOOSE i \in 1..Len(coll) :
         /\ coll[i].product_url = url
         /\ \A j \in 1..(i - 1) : coll[j].product_url # url
  ELSE 0

\* The filter of the repair pass: the $or of six clauses.
IncompleteFilter(doc) ==
  \/ Has(doc, "product_name") /\ doc.product_name = ""
  \/ ~Has(doc, "product_name")
  \/ Has(doc, "image_url") /\ doc.image_url = ""
  \/ ~Has(doc, "image_url")
  \/ Has(doc, "specifications") /\ ~doc.specifications.nil
       /\ Len(doc.specifications.elems) = 0
  \/ ~Has(doc, "specifications")

\* collection.Find(ctx, filter): the matching documents, in natural order.
FindIncomplete(coll) == SelectSeq(coll, IncompleteFilter)

\* collection.Find(ctx, bson.M{}): every document.
FindAll(coll) == coll

\* ---------------------------------------------------------------- state
VARIABLES
  session,   \* "Connect" (package database) or "NewMongoDB" (package main)
  client,    \* the mongo.Client of the session: "connected", "disconnected",
             \* or "panicked" when a panic has ended the program
  username,  \* the user of this session: NewMongoDB's username, or the
             \* user argument the caller of package database passes
  mode,      \* "seq": one call at a time; "conc": the calls of two callers interleave
  db,        \* user |-> the user's collection, documents in natural order
  now,       \* the clock time.Now() reads
  pc,        \* caller |-> where it is in the call it is making
  frame,     \* caller |-> the locals of that call
  last       \* the call that has just returned, with what it returned

vars == <<session, client, username, mode, db, now, pc, frame, last>>

Users == {"cypher", "bob"}

Procs == {1, 2}

\* In "seq" mode the program has one caller.
Callers == IF mode = "seq" THEN {1} ELSE Procs

\* NewMongoDB creates a unique index on product_url; Connect creates none.
Indexed == session = "NewMongoDB"

ZeroOf == IF session = "Connect" THEN ZeroModelsProduct ELSE ZeroProduct

Marshal(p) == IF session = "Connect" THEN MarshalModelsProduct(p) ELSE MarshalProduct(p)

Decode(doc) == IF session = "Connect" THEN DecodeModelsProduct(doc) ELSE DecodeProduct(doc)

\* A product value that carries a URL and nothing else.
UrlOnly(url) == [ZeroOf EXCEPT !.ProductURL = url]

EmptyFrame ==
  [user |-> "", arg |-> ZeroOf, product |-> ZeroOf, found |-> FALSE, matched |-> 0,
   cursor |-> <<>>, log |-> <<>>, newPrice |-> Price(0, 0)]

\* What is noted of a call when it returns: the call, its argument, whether
\* it returned an error, whether it wrote to the store, whether its lookup
\* found the product, the scrapers it called, the price string it parsed
\* and, for a pass over a cursor, how each product of the scan ended (for
\* UpdatePrices(user, product): the err of each scraper it called).
Returned(op, arg, err, wrote, found, calls, priceStr, log) ==
  [op |-> op, arg |-> arg, err |-> err, wrote |-> wrote, found |-> found,
   calls |-> calls, priceStr |-> priceStr, log |-> log]

\* No call has returned yet.
NoCall == Returned("", ZeroOf, FALSE, FALSE, FALSE, <<>>, <<>>, <<>>)

AllIdle == \A p \in Procs : pc[p] = "idle"

\* log.Fatalf has ended the program.
Fatal == \E p \in Procs : pc[p] = "fatal"

\* Caller p is at the step named label of its call.
At(p, label) == pc[p] = label /\ ~Fatal

\* A caller starts a call when it is making none and the program has taken
\* the result of the call before.
CanCall(p) ==
  p \in Callers /\ At(p, "idle") /\ last = NoCall /\ client = "connected"

\* A call that runs from its first line to its return with nothing else
\* running.
Alone == mode = "seq" /\ AllIdle /\ last = NoCall /\ client = "connected"

TypeOK ==
  /\ session \in {"Connect", "NewMongoDB"}
  /\ client \in {"connected", "disconnected", "panicked"}
  /\ username \in Users
  /\ mode \in {"seq", "conc"}
  /\ DOMAIN db = Users
  /\ now \in 0..MaxClock
  /\ DOMAIN pc = Procs
  /\ DOMAIN frame = Procs

InitWith(m, users) ==
  /\ session \in {"Connect", "NewMongoDB"}
  /\ client = "connected"
  /\ username \in users
  /\ mode = m
  /\ db = [u \in Users |-> <<>>]
  /\ now = 0
  /\ pc = [p \in Procs |-> "idle"]
  /\ frame = [p \in Procs |-> EmptyFrame]
  /\ last = NoCall

\* The program takes the result of the call that returned and goes on.
Resume ==
  /\ last # NoCall
  /\ last' = NoCall
  /\ UNCHANGED <<session, client, username, mode, db, now, pc, frame>>

\* Client.Disconnect: nil for a connected client, ErrClientDisconnected for
\* one that is disconnected already.
Disconnect(c) == [client |-> "disconnected", err |-> c # "connected"]

\* The release of the session, called between calls: the function Connect
\* returns panics on an error of Disconnect, Close drops it.
Release ==
  /\ mode = "seq" /\ AllIdle /\ last = NoCall
  /\ client \in {"connected", "disconnected"}
  /\ LET d == Disconnect(client)
     IN /\ client' = IF d.err /\ session = "Connect" THEN "panicked" ELSE d.client
        /\ last' = Returned("Release", ZeroOf, d.err, FALSE, FALSE, <<>>, <<>>, <<>>)
  /\ UNCHANGED <<session, username, mode, db, now, pc, frame>>

\* The program goes on as another user: a handle from NewMongoDB(uri, u),
\* or u as the user argument of the functions of package database.
SwitchUser(u) ==
  /\ Alone
  /\ u # username
  /\ username' = u
  /\ UNCHANGED <<session, client, mode, db, now, pc, frame, last>>

\* time passes
Tick ==
  /\ now < MaxClock
  /\ now' = now + 1
  /\ UNCHANGED <<session, client, username, mode, db, pc, frame, last>>

\* -------------------------------------------------------- UpsertProduct
\* The history is not carried over: the incoming one is written.
PreserveHistoryNever(product, found, existingProduct) == product

\* The incoming history is added to the existing one.
PreserveHistoryMerged(product, found, existingProduct) ==
  IF found
  THEN [product EXCEPT !.PriceHistory =
          [nil |-> existingProduct.PriceHistory.nil /\ product.PriceHistory.nil,
           elems |-> existingProduct.PriceHistory.elems \o product.PriceHistory.elems]]
  ELSE product

\* Step 3 of UpsertProduct: an existing product keeps its price history.
PreserveHistory(product, found, existingProduct) ==
  IF found THEN [product EXCEPT !.PriceHistory = existingProduct.PriceHistory]
  ELSE product

\* Steps 1-3: FindOne by product_url and Decode, then the history kept.
UpsertLookup(coll, product) ==
  LET i == FirstMatch(coll, product.ProductURL)
  IN PreserveHistory(product, i # 0, IF i = 0 THEN ZeroOf ELSE Decode(coll[i]))

\* UpdateOne(filter, {"$set": product}, upsert) once the server has
\* evaluated the filter: the matched document is updated, and with no match
\* a document made of the filter's field and the $set fields is inserted.
UpsertApply(coll, matched, url, fields) ==
  IF matched # 0 THEN [coll EXCEPT ![matched] = ApplySet(coll[matched], fields)]
  ELSE Append(coll, ApplySet([product_url |-> url], fields))

\* The collection after an UpsertProduct that meets no error and runs alone.
UpsertResult(coll, product) ==
  UpsertApply(coll, FirstMatch(coll, product.ProductURL), product.ProductURL,
              Marshal(UpsertLookup(coll, product)))

\* The number of documents is bounded: a new product_url is added while
\* there is room.
Room(coll, url) == FirstMatch(coll, url) # 0 \/ Len(coll) < MaxDocs

\* UpsertProduct(product, user) / m.UpsertProduct(product), run alone.
UpsertProduct(product, findErr, writeErr) ==
  /\ Alone
  /\ Room(db[username], product.ProductURL)
  /\ db' = IF findErr \/ writeErr THEN db
           ELSE [db EXCEPT ![username] = UpsertResult(db[username], product)]
  /\ last' = Returned("UpsertProduct", product, findErr \/ writeErr,
                      ~(findErr \/ writeErr),
                      ~findErr /\ FirstMatch(db[username], product.ProductURL) # 0,
                      <<>>, <<>>, <<>>)
  /\ UNCHANGED <<session, client, username, mode, now, pc, frame>>

\* The same call, step by step, for callers that interleave.
\* Steps 1-3: FindOne, the error check, the history kept.
UpsertFindOne(p, product, findErr) ==
  /\ mode = "conc"
  /\ CanCall(p)
  /\ Room(db[username], product.ProductURL)
  /\ IF findErr
     THEN /\ last' = Returned("UpsertProduct", product, TRUE, FALSE, FALSE,
                              <<>>, <<>>, <<>>)
          /\ UNCHANGED <<pc, frame>>
     ELSE /\ frame' = [frame EXCEPT ![p] =
                [EmptyFrame EXCEPT !.user = username, !.arg = product,
                    !.found = (FirstMatch(db[username], product.ProductURL) # 0),
                    !.product = UpsertLookup(db[username], product)]]
          /\ pc' = [pc EXCEPT ![p] = "upsert_query"]
          /\ last' = last
  /\ UNCHANGED <<session, client, username, mode, db, now>>

\* UpdateOne, query phase: the server looks for a document to update.
UpsertQuery(p) ==
  /\ At(p, "upsert_query")
  /\ frame' = [frame EXCEPT ![p].matched =
                  FirstMatch(db[frame[p].user], frame[p].product.ProductURL)]
  /\ pc' = [pc EXCEPT ![p] = "upsert_write"]
  /\ UNCHANGED <<session, client, username, mode, db, now, last>>

\* UpdateOne, write phase, and the return of UpsertProduct.  With the
\* unique index an insert of a product_url that has appeared meanwhile is
\* rejected (duplicate key) or retried by the server as an update.
UpsertWrite(p, writeErr, retry) ==
  /\ At(p, "upsert_write")
  /\ LET u == frame[p].user
         url == frame[p].product.ProductURL
         cur == FirstMatch(db[u], url)
         dup == Indexed /\ frame[p].matched = 0 /\ cur # 0
         m == IF dup THEN cur ELSE frame[p].matched
         failed == writeErr \/ (dup /\ ~retry)
     IN /\ db' = IF failed THEN db
                 ELSE [db EXCEPT ![u] = UpsertApply(db[u], m, url, Marshal(frame[p].product))]
        /\ last' = Returned("UpsertProduct", frame[p].arg, failed, ~failed,
                            frame[p].found, <<>>, <<>>, <<>>)
  /\ pc' = [pc EXCEPT ![p] = "idle"]
  /\ frame' = [frame EXCEPT ![p] = EmptyFrame]
  /\ UNCHANGED <<session, client, username, mode, now>>

\* ------------------------------------------ UpdatePrices(user, product)
\* What a price scraper returns: (priceStr, err).
Scraped(str, err) == [str |-> str, err |-> err]

\* Lines 108-113 of package database: the aggregates, 0 meaning "none yet".
NewMinPrice(minPrice, currentPrice) ==
  IF minPrice = 0 \/ currentPrice < minPrice THEN currentPrice ELSE minPrice

NewMaxPrice(maxPrice, currentPrice) ==
  IF maxPrice = 0 \/ currentPrice > maxPrice THEN currentPrice ELSE maxPrice

\* An unsupported vendor is returned as an error.
DbDispatchVendorError(url, fl, am) ==
  IF Contains(url, Flipkart)
  THEN IF fl.err
       THEN [ret |-> "err", calls |-> <<"flipkart">>, errs |-> <<fl.err>>, priceStr |-> fl.str]
       ELSE IF ParseFloat(fl.str).err
       THEN [ret |-> "err", calls |-> <<"flipkart">>, errs |-> <<fl.err>>, priceStr |-> fl.str]
       ELSE IF Contains(url, Amazon)
       THEN IF ParseFloat(am.str).err
            THEN [ret |-> "err", calls |-> <<"flipkart", "amazon">>,
                  errs |-> <<fl.err, am.err>>, priceStr |-> am.str]
            ELSE [ret |-> "write", calls |-> <<"flipkart", "amazon">>,
                  errs |-> <<fl.err, am.err>>, priceStr |-> am.str]
       ELSE [ret |-> "err", calls |-> <<"flipkart">>, errs |-> <<fl.err>>, priceStr |-> fl.str]
  ELSE [ret |-> "err", calls |-> <<>>, errs |-> <<>>, priceStr |-> <<>>]

\* Lines 77-105 of package database, as the braces nest: the Amazon branch
\* and the unsupported-vendor branch are the else-branches of the parse
\* check inside the Flipkart block, and everything after them (aggregates,
\* write) is inside the Flipkart block too.  ret is "err" (an error is
\* returned), "nil" (nil is returned with nothing written) or "write";
\* errs is the err each scraper called has returned, in the order of calls.
DbDispatch(url, fl, am) ==
  IF Contains(url, Flipkart)
  THEN IF fl.err
       THEN [ret |-> "err", calls |-> <<"flipkart">>, errs |-> <<fl.err>>, priceStr |-> fl.str]
       ELSE IF ParseFloat(fl.str).err
       THEN [ret |-> "err", calls |-> <<"flipkart">>, errs |-> <<fl.err>>, priceStr |-> fl.str]
       ELSE IF Contains(url, Amazon)
       THEN IF ParseFloat(am.str).err
            THEN [ret |-> "err", calls |-> <<"flipkart", "amazon">>,
                  errs |-> <<fl.err, am.err>>, priceStr |-> am.str]
            ELSE [ret |-> "write", calls |-> <<"flipkart", "amazon">>,
                  errs |-> <<fl.err, am.err>>, priceStr |-> am.str]
       ELSE [ret |-> "nil", calls |-> <<"flipkart">>, errs |-> <<fl.err>>, priceStr |-> fl.str]
  ELSE [ret |-> "nil", calls |-> <<>>, errs |-> <<>>, priceStr |-> <<>>]

\* The update document of lines 120-128 applied to the matched document.
RefreshUpdate(doc, newPrice, minPrice, maxPrice) ==
  ApplySet(ApplyPush(doc, newPrice), [min_price |-> minPrice, max_price |-> maxPrice])

\* The price history of a document has room for one more price.
HistRoom(doc) == GoLen(FieldOr(doc, "price_history", NilSlice)) < MaxHist

\* UpdatePrices(user, product), run alone: product is the caller's copy of
\* the stored product at index i.
UpdatePrices(i, fl, am, writeErr) ==
  /\ Alone
  /\ session = "Connect"
  /\ i \in 1..Len(db[username])
  /\ HistRoom(db[username][i])
  /\ LET coll == db[username]
         product == Decode(coll[i])
         d == DbDispatch(product.ProductURL, fl, am)
         currentPrice == ParseFloat(d.priceStr).value
         m == FirstMatch(coll, product.ProductURL)
         failed == writeErr \/ (m # 0 /\ PushRejected(coll[m]))
     IN IF d.ret # "write"
        THEN /\ db' = db
             /\ last' = Returned("UpdatePrices", UrlOnly(product.ProductURL),
                                 d.ret = "err", FALSE, FALSE, d.calls, <<>>, d.errs)
        ELSE /\ db' = IF failed \/ m = 0 THEN db
                      ELSE [db EXCEPT ![username][m] =
                              RefreshUpdate(coll[m], Price(currentPrice, now),
                                 NewMinPrice(product.MinPrice, currentPrice),
                                 NewMaxPrice(product.MaxPrice, currentPrice))]
             /\ last' = Returned("UpdatePrices", UrlOnly(product.ProductURL),
                                 failed, ~failed /\ m # 0, m # 0, d.calls, d.priceStr, d.errs)
  /\ UNCHANGED <<session, client, username, mode, now, pc, frame>>

\* The same call, step by step, for callers that interleave.  The caller
\* holds a copy of the stored product at index i and passes a pointer to it.
CallerReads(p, i) ==
  /\ mode = "conc"
  /\ CanCall(p)
  /\ session = "Connect"
  /\ i \in 1..Len(db[username])
  /\ HistRoom(db[username][i])
  /\ frame' = [frame EXCEPT ![p] =
        [EmptyFrame EXCEPT !.user = username, !.product = Decode(db[username][i])]]
  /\ pc' = [pc EXCEPT ![p] = "refresh_call"]
  /\ UNCHANGED <<session, client, username, mode, db, now, last>>

\* Lines 77-128: the scrape, the parse, the aggregates from the caller's
\* copy, newPrice with time.Now(), the update document.
UpdatePricesCompute(p, fl, am) ==
  /\ At(p, "refresh_call")
  /\ LET product == frame[p].product
         d == DbDispatch(product.ProductURL, fl, am)
         currentPrice == ParseFloat(d.priceStr).value
     IN IF d.ret # "write"
        THEN /\ last = NoCall
             /\ last' = Returned("UpdatePrices", UrlOnly(product.ProductURL),
                                 d.ret = "err", FALSE, FALSE, d.calls, <<>>, d.errs)
             /\ pc' = [pc EXCEPT ![p] = "idle"]
             /\ frame' = [frame EXCEPT ![p] = EmptyFrame]
        ELSE /\ frame' = [frame EXCEPT
                  ![p].product.MinPrice = NewMinPrice(product.MinPrice, currentPrice),
                  ![p].product.MaxPrice = NewMaxPrice(product.MaxPrice, currentPrice),
                  ![p].newPrice = Price(currentPrice, now),
                  ![p].log = <<[calls |-> d.calls, priceStr |-> d.priceStr, errs |-> d.errs]>>]
             /\ pc' = [pc EXCEPT ![p] = "refresh_write"]
             /\ last' = last
  /\ UNCHANGED <<session, client, username, mode, db, now>>

\* Lines 130-144: UpdateOne with the $push and the $set, and the return.
UpdatePricesWrite(p, writeErr) ==
  /\ At(p, "refresh_write")
  /\ last = NoCall
  /\ LET u == frame[p].user
         product == frame[p].product
         m == FirstMatch(db[u], product.ProductURL)
         failed == writeErr \/ (m # 0 /\ PushRejected(db[u][m]))
     IN /\ m # 0 => HistRoom(db[u][m])
        /\ db' = IF failed \/ m = 0 THEN db
                 ELSE [db EXCEPT ![u][m] =
                         RefreshUpdate(db[u][m], frame[p].newPrice,
                                       product.MinPrice, product.MaxPrice)]
        /\ last' = Returned("UpdatePrices", UrlOnly(product.ProductURL), failed,
                            ~failed /\ m # 0, m # 0, frame[p].log[1].calls,
                            frame[p].log[1].priceStr, frame[p].log[1].errs)
  /\ pc' = [pc EXCEPT ![p] = "idle"]
  /\ frame' = [frame EXCEPT ![p] = EmptyFrame]
  /\ UNCHANGED <<session, client, username, mode, now>>

\* ------------------------------------------------- MongoDB.UpdatePrices
\* Lines 148-173 of mongo.go for one product of the scan: which scraper is
\* called and how the item ends ("scrape", "parse", "vendor": skipped; "ok":
\* a price to append).  At most one scraper is called; scraped is what it
\* returns.
BulkDispatch(url, scraped) ==
  IF Contains(url, Flipkart)
  THEN IF scraped.err
       THEN [outcome |-> "scrape", calls |-> <<"flipkart">>, priceStr |-> scraped.str]
       ELSE IF ParseFloat(scraped.str).err
       THEN [outcome |-> "parse", calls |-> <<"flipkart">>, priceStr |-> scraped.str]
       ELSE [outcome |-> "ok", calls |-> <<"flipkart">>, priceStr |-> scraped.str]
  ELSE IF Contains(url, Amazon)
  THEN IF scraped.err
       THEN [outcome |-> "scrape", calls |-> <<"amazon">>, priceStr |-> scraped.str]
       ELSE IF ParseFloat(scraped.str).err
       THEN [outcome |-> "parse", calls |-> <<"amazon">>, priceStr |-> scraped.str]
       ELSE [outcome |-> "ok", calls |-> <<"amazon">>, priceStr |-> scraped.str]
  ELSE [outcome |-> "vendor", calls |-> <<>>, priceStr |-> <<>>]

\* What a loop notes of the product it has just handled; the price string
\* is noted when the price was written.
Visited(url, outcome, calls, priceStr) ==
  [url |-> url, outcome |-> outcome, calls |-> calls,
   priceStr |-> IF outcome = "ok" THEN priceStr ELSE <<>>]

\* A product that fails ends the loop.
ContinueOrBreak(p, entry) ==
  frame' = [frame EXCEPT ![p].cursor = IF entry.outcome = "ok"
                                       THEN Tail(frame[p].cursor) ELSE <<>>,
                         ![p].log = Append(frame[p].log, entry)]

\* A loop body ends (continue, or the end of the body): the cursor moves on.
Continue(p, entry) ==
  frame' = [frame EXCEPT ![p].cursor = Tail(frame[p].cursor),
                         ![p].log = Append(frame[p].log, entry)]

\* m.UpdatePrices() is called: Find of every product.
UpdatePricesFind(p, findErr) ==
  /\ CanCall(p)
  /\ session = "NewMongoDB"
  /\ \A i \in 1..Len(db[username]) : HistRoom(db[username][i])
  /\ IF findErr
     THEN /\ last' = Returned("UpdatePrices", ZeroOf, TRUE, FALSE, FALSE, <<>>, <<>>, <<>>)
          /\ UNCHANGED <<pc, frame>>
     ELSE /\ frame' = [frame EXCEPT ![p] =
                [EmptyFrame EXCEPT !.user = username, !.cursor = FindAll(db[username])]]
          /\ pc' = [pc EXCEPT ![p] = "bulk_loop"]
          /\ last' = last
  /\ UNCHANGED <<session, client, username, mode, db, now>>

\* One turn of the loop: cursor.Next, Decode, vendor dispatch, scrape,
\* parse, then UpdateOne with the $push of lines 182-192.
UpdatePricesNext(p, decodeErr, scraped, writeErr) ==
  /\ At(p, "bulk_loop")
  /\ frame[p].cursor # <<>>
  /\ LET u == frame[p].user
         product == DecodeProduct(Head(frame[p].cursor))
         url == product.ProductURL
         d == BulkDispatch(url, scraped)
         newPrice == Price(ParseFloat(d.priceStr).value, now)
         m == FirstMatch(db[u], url)
     IN IF decodeErr
        THEN /\ db' = db
             /\ Continue(p, Visited(Head(frame[p].cursor).product_url, "decode", <<>>, <<>>))
        ELSE IF d.outcome # "ok"
        THEN /\ db' = db
             /\ Continue(p, Visited(url, d.outcome, d.calls, d.priceStr))
        ELSE IF writeErr \/ (m # 0 /\ PushRejected(db[u][m]))
        THEN /\ db' = db
             /\ Continue(p, Visited(url, "write", d.calls, d.priceStr))
        ELSE /\ db' = IF m = 0 THEN db
                      ELSE [db EXCEPT ![u][m] = ApplyPush(db[u][m], newPrice)]
             /\ Continue(p, Visited(url, "ok", d.calls, d.priceStr))
  /\ UNCHANGED <<session, client, username, mode, now, pc, last>>

\* The cursor is exhausted: return nil.
UpdatePricesDone(p) ==
  /\ At(p, "bulk_loop")
  /\ frame[p].cursor = <<>>
  /\ last' = Returned("UpdatePrices", ZeroOf, FALSE, FALSE, FALSE, <<>>, <<>>, frame[p].log)
  /\ pc' = [pc EXCEPT ![p] = "idle"]
  /\ frame' = [frame EXCEPT ![p] = EmptyFrame]
  /\ UNCHANGED <<session, client, username, mode, db, now>>

\* ------------------------------------------- MongoDB.AddPrice, GetProduct
\* AddPrice, run alone: newPrice with time.Now(), then UpdateOne with the
\* $push, no upsert; the error of UpdateOne is what it returns.
AddPrice(productURL, price, writeErr) ==
  /\ Alone
  /\ session = "NewMongoDB"
  /\ LET coll == db[username]
         m == FirstMatch(coll, productURL)
         failed == writeErr \/ (m # 0 /\ PushRejected(coll[m]))
     IN /\ m # 0 => HistRoom(coll[m])
        /\ db' = IF failed \/ m = 0 THEN db
                 ELSE [db EXCEPT ![username][m] = ApplyPush(coll[m], Price(price, now))]
        /\ last' = Returned("AddPrice", UrlOnly(productURL), failed, ~failed /\ m # 0,
                            m # 0, <<>>, <<>>, <<>>)
  /\ UNCHANGED <<session, client, username, mode, now, pc, frame>>

\* AddPrice step by step, for callers that interleave.  Lines 99-105:
\* newPrice with time.Now(), the filter and the update document.
AddPriceNow(p, productURL, price) ==
  /\ mode = "conc"
  /\ CanCall(p)
  /\ session = "NewMongoDB"
  /\ frame' = [frame EXCEPT ![p] =
        [EmptyFrame EXCEPT !.user = username, !.arg = UrlOnly(productURL),
                           !.newPrice = Price(price, now)]]
  /\ pc' = [pc EXCEPT ![p] = "addprice_write"]
  /\ UNCHANGED <<session, client, username, mode, db, now, last>>

\* Lines 107-108: UpdateOne and the return.
AddPriceWrite(p, writeErr) ==
  /\ At(p, "addprice_write")
  /\ last = NoCall
  /\ LET u == frame[p].user
         m == FirstMatch(db[u], frame[p].arg.ProductURL)
         failed == writeErr \/ (m # 0 /\ PushRejected(db[u][m]))
     IN /\ m # 0 => HistRoom(db[u][m])
        /\ db' = IF failed \/ m = 0 THEN db
                 ELSE [db EXCEPT ![u][m] = ApplyPush(db[u][m], frame[p].newPrice)]
        /\ last' = Returned("AddPrice", frame[p].arg, failed, ~failed /\ m # 0,
                            m # 0, <<>>, <<>>, <<>>)
  /\ pc' = [pc EXCEPT ![p] = "idle"]
  /\ frame' = [frame EXCEPT ![p] = EmptyFrame]
  /\ UNCHANGED <<session, client, username, mode, now>>

\* GetProduct: FindOne and Decode; any error, not-found included, is returned.
GetProduct(productURL, findErr) ==
  /\ Alone
  /\ session = "NewMongoDB"
  /\ LET m == FirstMatch(db[username], productURL)
     IN last' = Returned("GetProduct", UrlOnly(productURL), findErr \/ m = 0, FALSE,
                         ~findErr /\ m # 0, <<>>, <<>>, <<>>)
  /\ UNCHANGED <<session, client, username, mode, db, now, pc, frame>>

\* ---------------------------------------------- UpdateIncompleteRecords
\* What ScrapeProductDetails(url) returns on success: the details of that
\* url, with no price history and no aggregates.
ScrapedDetails(url, name, image, specs) ==
  IF session = "Connect"
  THEN ModelsProduct(url, name, image, specs, NilSlice, 0, 0)
  ELSE Product(url, name, image, specs, NilSlice)

\* The collection the repair pass works on: the user's in package database;
\* the one of NewMongoDB(MongoURI, "cypher") in package main.
RepairUser == IF session = "Connect" THEN username ELSE "cypher"

\* The pass starts: (NewMongoDB and) Find with the filter; a failure of
\* either is log.Fatalf.
RepairFind(p, setupErr) ==
  /\ CanCall(p)
  /\ IF setupErr
     THEN /\ pc' = [pc EXCEPT ![p] = "fatal"]
          /\ frame' = frame
     ELSE /\ pc' = [pc EXCEPT ![p] = "repair_loop"]
          /\ frame' = [frame EXCEPT ![p] =
                [EmptyFrame EXCEPT !.user = RepairUser,
                                   !.cursor = FindIncomplete(db[RepairUser])]]
  /\ UNCHANGED <<session, client, username, mode, db, now, last>>

\* A product that fails ends the program (log.Fatalf in place of continue).
RepairNextFatal(p, decodeErr, scrapeErr, name, image, specs, findErr, writeErr) ==
  /\ At(p, "repair_loop")
  /\ frame[p].cursor # <<>>
  /\ LET u == frame[p].user
         url == Decode(Head(frame[p].cursor)).ProductURL
         updatedProduct == ScrapedDetails(url, name, image, specs)
     IN IF decodeErr \/ scrapeErr \/ findErr \/ writeErr
        THEN /\ db' = db
             /\ pc' = [pc EXCEPT ![p] = "fatal"]
             /\ frame' = frame
        ELSE /\ db' = [db EXCEPT ![u] = UpsertResult(db[u], updatedProduct)]
             /\ pc' = pc
             /\ Continue(p, Visited(url, "ok", <<>>, <<>>))
  /\ UNCHANGED <<session, client, username, mode, now, last>>

\* One turn of the loop: cursor.Next, Decode, ScrapeProductDetails, and on
\* success UpsertProduct of what the scraper returned.
RepairNext(p, decodeErr, scrapeErr, name, image, specs, findErr, writeErr) ==
  /\ At(p, "repair_loop")
  /\ frame[p].cursor # <<>>
  /\ LET u == frame[p].user
         url == Decode(Head(frame[p].cursor)).ProductURL
         updatedProduct == ScrapedDetails(url, name, image, specs)
     IN IF decodeErr
        THEN /\ db' = db
             /\ Continue(p, Visited(Head(frame[p].cursor).product_url, "decode", <<>>, <<>>))
        ELSE IF scrapeErr
        THEN /\ db' = db
             /\ Continue(p, Visited(url, "scrape", <<>>, <<>>))
        ELSE IF findErr \/ writeErr
        THEN /\ db' = db
             /\ Continue(p, Visited(url, "upsert", <<>>, <<>>))
        ELSE /\ db' = [db EXCEPT ![u] = UpsertResult(db[u], updatedProduct)]
             /\ Continue(p, Visited(url, "ok", <<>>, <<>>))
  /\ UNCHANGED <<session, client, username, mode, now, pc, last>>

\* The cursor is exhausted: return nil.
RepairDone(p) ==
  /\ At(p, "repair_loop")
  /\ frame[p].cursor = <<>>
  /\ last' = Returned("UpdateIncompleteRecords", ZeroOf, FALSE, FALSE, FALSE,
                      <<>>, <<>>, frame[p].log)
  /\ pc' = [pc EXCEPT ![p] = "idle"]
  /\ frame' = [frame EXCEPT ![p] = EmptyFrame]
  /\ UNCHANGED <<session, client, username, mode, db, now>>

\* ----------------------------------------------------------- the inputs
UrlFlipkart == <<"https://", "flipkart", ".com/p1">>

UrlAmazon == <<"https://", "amazon", ".x/p/1">>

UrlBoth == <<"https://", "flipkart", ".com/", "amazon", "-basics">>

UrlOther == <<"https://", "example", ".com/p">>

Urls == {UrlFlipkart, UrlAmazon, UrlBoth, UrlOther}

\* (product_name, image_url, specifications) of a product.
Detail(name, image, specs) == [name |-> name, image |-> image, specs |-> specs]

Complete == Detail("A", "i", MkSlice(<<"s">>))

Renamed == Detail("A2", "i", MkSlice(<<"s">>))

\* Complete, or incomplete in one of the ways of the repair filter, or with
\* nil specifications.
Details ==
  {Complete, Detail("", "i", MkSlice(<<"s">>)), Detail("A", "", MkSlice(<<"s">>)),
   Detail("A", "i", MkSlice(<<>>)), Detail("A", "i", NilSlice)}

Histories == {NilSlice, MkSlice(<<>>), MkSlice(<<Price(12, 0)>>)}

\* Products a caller passes to UpsertProduct.
UpsertInputs(urls, details, histories) ==
  IF session = "Connect"
  THEN {ModelsProduct(u, d.name, d.image, d.specs, h, 0, 0) :
          u \in urls, d \in details, h \in histories}
  ELSE {Product(u, d.name, d.image, d.specs, h) :
          u \in urls, d \in details, h \in histories}

\* What a price scraper may return: a price string with no error, and an
\* error with an empty or a stale string.
PriceStrs == {<<"0">>, <<"1", "2">>, <<"n", "a">>}

ScrapeOutcomes ==
  {Scraped(s, FALSE) : s \in PriceStrs} \cup {Scraped(<<>>, TRUE), Scraped(<<"1", "2">>, TRUE)}

AddedPrices == {0, 12}

\* ------------------------------------------------------- specifications
\* The catalog: upserts, refreshes and price appends, one call at a time.
Init == InitWith("seq", {"bob"})

Next ==
  \/ \E product \in UpsertInputs(Urls, {Complete, Renamed}, Histories),
        findErr \in BOOLEAN, writeErr \in BOOLEAN :
        UpsertProduct(product, findErr, writeErr)
  \/ \E i \in 1..MaxDocs, fl \in ScrapeOutcomes, am \in ScrapeOutcomes,
        writeErr \in BOOLEAN : UpdatePrices(i, fl, am, writeErr)
  \/ \E p \in Procs, findErr \in BOOLEAN : UpdatePricesFind(p, findErr)
  \/ \E p \in Procs, decodeErr \in BOOLEAN, scraped \in ScrapeOutcomes,
        writeErr \in BOOLEAN : UpdatePricesNext(p, decodeErr, scraped, writeErr)
  \/ \E p \in Procs : UpdatePricesDone(p)
  \/ \E url \in Urls, price \in AddedPrices, writeErr \in BOOLEAN :
        AddPrice(url, price, writeErr)
  \/ \E url \in Urls, findErr \in BOOLEAN : GetProduct(url, findErr)
  \/ Resume

Spec == Init /\ [][Next]_vars

\* The repair pass: products of every kind of detail are stored and repaired.
InitRepair == InitWith("seq", Users)

NextRepair ==
  \/ \E product \in UpsertInputs({UrlBoth, UrlOther}, Details,
                                 {NilSlice, MkSlice(<<Price(12, 0)>>)}),
        findErr \in BOOLEAN, writeErr \in BOOLEAN :
        UpsertProduct(product, findErr, writeErr)
  \/ \E i \in 1..MaxDocs, writeErr \in BOOLEAN :
        UpdatePrices(i, Scraped(<<"1", "2">>, FALSE), Scraped(<<"1", "2">>, FALSE), writeErr)
  \/ \E p \in Procs, setupErr \in BOOLEAN : RepairFind(p, setupErr)
  \/ \E p \in Procs, decodeErr \in BOOLEAN, scrapeErr \in BOOLEAN,
        d \in {Complete, Detail("", "i", MkSlice(<<"s">>))},
        findErr \in BOOLEAN, writeErr \in BOOLEAN :
        RepairNext(p, decodeErr, scrapeErr, d.name, d.image, d.specs, findErr, writeErr)
  \/ \E p \in Procs : RepairDone(p)
  \/ Resume

SpecRepair == InitRepair /\ [][NextRepair]_vars

\* The repair pass, once started, keeps running: the loop takes its next
\* turn and the function returns when the cursor is exhausted.
RepairFairness ==
  /\ WF_vars(\E p \in Procs, decodeErr \in BOOLEAN, scrapeErr \in BOOLEAN,
                d \in {Complete, Detail("", "i", MkSlice(<<"s">>))},
                findErr \in BOOLEAN, writeErr \in BOOLEAN :
                RepairNext(p, decodeErr, scrapeErr, d.name, d.image, d.specs, findErr, writeErr))
  /\ WF_vars(\E p \in Procs : RepairDone(p))

InitRepairLive == InitWith("seq", {"bob"})

NextRepairLive ==
  \/ \E product \in UpsertInputs({UrlBoth, UrlOther},
                                 {Complete, Detail("", "i", MkSlice(<<"s">>))}, {NilSlice}),
        findErr \in BOOLEAN, writeErr \in BOOLEAN :
        UpsertProduct(product, findErr, writeErr)
  \/ \E p \in Procs, setupErr \in BOOLEAN : RepairFind(p, setupErr)
  \/ \E p \in Procs, decodeErr \in BOOLEAN, scrapeErr \in BOOLEAN,
        d \in {Complete, Detail("", "i", MkSlice(<<"s">>))},
        findErr \in BOOLEAN, writeErr \in BOOLEAN :
        RepairNext(p, decodeErr, scrapeErr, d.name, d.image, d.specs, findErr, writeErr)
  \/ \E p \in Procs : RepairDone(p)
  \/ Resume

SpecRepairLive == InitRepairLive /\ [][NextRepairLive]_vars /\ RepairFairness

\* Two callers upsert, refresh and add prices at the same time, on one
\* product, while the clock advances.
RacePrices == {5, 12}

RaceScrapes == {Scraped(<<"5">>, FALSE), Scraped(<<"1", "2">>, FALSE)}

InitRace == InitWith("conc", {"bob"})

NextRace ==
  \/ \E p \in Procs, findErr \in BOOLEAN,
        product \in UpsertInputs({UrlBoth}, {Complete}, {MkSlice(<<>>)}) :
        UpsertFindOne(p, product, findErr)
  \/ \E p \in Procs : UpsertQuery(p)
  \/ \E p \in Procs, writeErr \in BOOLEAN, retry \in BOOLEAN : UpsertWrite(p, writeErr, retry)
  \/ \E p \in Procs, i \in 1..MaxDocs : CallerReads(p, i)
  \/ \E p \in Procs, fl \in RaceScrapes \cup {Scraped(<<>>, TRUE)}, am \in RaceScrapes :
        UpdatePricesCompute(p, fl, am)
  \/ \E p \in Procs, writeErr \in BOOLEAN : UpdatePricesWrite(p, writeErr)
  \/ \E p \in Procs, price \in RacePrices : AddPriceNow(p, UrlBoth, price)
  \/ \E p \in Procs, writeErr \in BOOLEAN : AddPriceWrite(p, writeErr)
  \/ Tick
  \/ Resume

SpecRace == InitRace /\ [][NextRace]_vars

\* The operations of the store, called for one user and then another.
InitUsers == InitWith("seq", Users)

NextUsers ==
  \/ \E u \in Users : SwitchUser(u)
  \/ \E product \in UpsertInputs({UrlBoth}, {Complete, Detail("", "i", MkSlice(<<"s">>))},
                                 {MkSlice(<<>>)}),
        findErr \in BOOLEAN, writeErr \in BOOLEAN :
        UpsertProduct(product, findErr, writeErr)
  \/ \E i \in 1..MaxDocs, writeErr \in BOOLEAN :
        UpdatePrices(i, Scraped(<<"1", "2">>, FALSE), Scraped(<<"1", "2">>, FALSE), writeErr)
  \/ \E p \in Procs, findErr \in BOOLEAN : UpdatePricesFind(p, findErr)
  \/ \E p \in Procs, decodeErr \in BOOLEAN, writeErr \in BOOLEAN :
        UpdatePricesNext(p, decodeErr, Scraped(<<"1", "2">>, FALSE), writeErr)
  \/ \E p \in Procs : UpdatePricesDone(p)
  \/ \E writeErr \in BOOLEAN : AddPrice(UrlBoth, 12, writeErr)
  \/ \E findErr \in BOOLEAN : GetProduct(UrlBoth, findErr)
  \/ \E p \in Procs, setupErr \in BOOLEAN : RepairFind(p, setupErr)
  \/ \E p \in Procs, decodeErr \in BOOLEAN, scrapeErr \in BOOLEAN,
        findErr \in BOOLEAN, writeErr \in BOOLEAN :
        RepairNext(p, decodeErr, scrapeErr, "A2", "i", MkSlice(<<"s">>), findErr, writeErr)
  \/ \E p \in Procs : RepairDone(p)
  \/ Resume

SpecUsers == InitUsers /\ [][NextUsers]_vars

\* A session is used and then released, once or more.
InitRelease == InitWith("seq", {"bob"})

NextRelease ==
  \/ \E product \in UpsertInputs({UrlAmazon, UrlOther}, {Complete, Renamed},
                                 {NilSlice, MkSlice(<<Price(12, 0)>>)}),
        findErr \in BOOLEAN, writeErr \in BOOLEAN :
        UpsertProduct(product, findErr, writeErr)
  \/ \E productURL \in {UrlAmazon, UrlOther}, findErr \in BOOLEAN :
        GetProduct(productURL, findErr)
  \/ Release
  \/ Resume

SpecRelease == InitRelease /\ [][NextRelease]_vars

\* Two callers upsert at the same time: the lookup, the query phase and the
\* write phase of each interleave with those of the other.
InitConc == InitWith("conc", {"bob"})

NextConc ==
  \/ \E p \in Procs, findErr \in BOOLEAN,
        product \in UpsertInputs({UrlAmazon, UrlOther}, {Complete}, {NilSlice}) :
        UpsertFindOne(p, product, findErr)
  \/ \E p \in Procs : UpsertQuery(p)
  \/ \E p \in Procs, writeErr \in BOOLEAN, retry \in BOOLEAN : UpsertWrite(p, writeErr, retry)
  \/ Resume

SpecConc == InitConc /\ [][NextConc]_vars

\* --------------------------------------------------------------- claims
\* The collection of the session's user.
Coll == db[username]

\* A field of a stored document as a sequence: empty when the field is
\* absent, else its one value.
FieldOf(doc, f) == IF Has(doc, f) THEN <<doc[f]>> ELSE <<>>

\* The entries of the stored price history of a document.
Entries(doc) == FieldOr(doc, "price_history", NilSlice).elems

Values(doc) == {Entries(doc)[k].value : k \in 1..Len(Entries(doc))}

\* The step on which a call of op returns.
Returns(op) == last = NoCall /\ last' # NoCall /\ last'.op = op

\* C1: an UpsertProduct that runs alone, whatever product it carries and
\* however it ends, leaves the price_history of every document already
\* stored exactly as it was (and removes no document); so after any number
\* of upserts in a row the stored history of a product is the one it had.
C1_HistoryPreserved ==
  [][Returns("UpsertProduct") =>
       /\ Len(Coll') >= Len(Coll)
       /\ \A i \in 1..Len(Coll) :
            /\ Coll'[i].product_url = Coll[i].product_url
            /\ FieldOf(Coll'[i], "price_history") = FieldOf(Coll[i], "price_history")]_vars

\* An upsert has rewritten the details of a stored product whose history
\* holds a price, carrying another history.
C1_Witness ==
  /\ last.op = "UpsertProduct" /\ ~last.err /\ last.found
  /\ LET doc == Coll[FirstMatch(Coll, last.arg.ProductURL)]
     IN /\ Len(Entries(doc)) >= 1
        /\ doc.price_history # last.arg.PriceHistory
        /\ doc.product_name = "A2"

\* C2 (as claimed): an UpsertProduct leaves min_price and max_price of every
\* document already stored unchanged.
C2_AggregatesPreserved ==
  [][Returns("UpsertProduct") =>
       \A i \in 1..Len(Coll) :
          /\ FieldOf(Coll'[i], "min_price") = FieldOf(Coll[i], "min_price")
          /\ FieldOf(Coll'[i], "max_price") = FieldOf(Coll[i], "max_price")]_vars

\* The price a refresh appends: the parsed price string, stamped now.
Appended(priceStr) == Price(ParseFloat(priceStr).value, now)

\* The collection with one price appended to the history of the first
\* document of that url, and nothing else changed but, in that document,
\* the aggregates.
AppendedTo(before, after, url, newPrice) ==
  LET m == FirstMatch(before, url)
  IN /\ m # 0
     /\ Len(after) = Len(before)
     /\ \A i \in 1..Len(before) :
          IF i = m
          THEN /\ Has(after[i], "price_history")
               /\ ~after[i].price_history.nil
               /\ Entries(after[i]) = Append(Entries(before[i]), newPrice)
               /\ \A f \in DOMAIN before[i] \ {"price_history", "min_price", "max_price"} :
                     Has(after[i], f) /\ after[i][f] = before[i][f]
          ELSE after[i] = before[i]

\* One turn of the loop of MongoDB.UpdatePrices.
BulkTurn(p) ==
  /\ pc[p] = "bulk_loop"
  /\ pc'[p] = "bulk_loop"
  /\ Len(frame'[p].log) = Len(frame[p].log) + 1

\* What the loop noted of the product it has just handled.
Noted(p) == frame'[p].log[Len(frame'[p].log)]

\* C3: every refresh that writes, UpdatePrices(user, product) or a turn of
\* the loop of MongoDB.UpdatePrices, extends the stored price_history of its
\* product by exactly one entry, at the end, whose value is the parsed
\* scraped price; the earlier entries keep their values and positions.
C3_AppendOnly ==
  [][/\ (Returns("UpdatePrices") /\ last'.wrote) =>
          /\ ~ParseFloat(last'.priceStr).err
          /\ AppendedTo(Coll, Coll', last'.arg.ProductURL, Appended(last'.priceStr))
     /\ \A p \in Procs : (BulkTurn(p) /\ Noted(p).outcome = "ok") =>
          /\ ~ParseFloat(Noted(p).priceStr).err
          /\ AppendedTo(Coll, Coll', Noted(p).url, Appended(Noted(p).priceStr))]_vars

\* A refresh has appended a second price after a first one.
C3_Witness ==
  /\ last.op = "UpdatePrices" /\ last.wrote
  /\ LET doc == Coll[FirstMatch(Coll, last.arg.ProductURL)]
     IN /\ Len(Entries(doc)) = 2
        /\ Entries(doc)[1].value # Entries(doc)[2].value

\* The smallest and the largest of a non-empty set of prices.
MinOf(S) == CHOOSE x \in S : \A y \in S : x <= y

MaxOf(S) == CHOOSE x \in S : \A y \in S : x >= y

\* The aggregates of a document are those of its history (0 and 0, or none,
\* for an empty history).
Consistent(doc) ==
  IF Values(doc) = {}
  THEN /\ FieldOr(doc, "min_price", 0) = 0
       /\ FieldOr(doc, "max_price", 0) = 0
  ELSE /\ FieldOf(doc, "min_price") = <<MinOf(Values(doc))>>
       /\ FieldOf(doc, "max_price") = <<MaxOf(Values(doc))>>

\* C4 (as claimed, for the products whose aggregates agreed with their
\* history before the refresh): after a successful UpdatePrices(user,
\* product) the stored min_price is the minimum and the stored max_price the
\* maximum of the stored price_history.
C4_AggregatesConsistent ==
  [][(Returns("UpdatePrices") /\ last'.wrote /\ session = "Connect") =>
       LET m == FirstMatch(Coll, last'.arg.ProductURL)
       IN Consistent(Coll[m]) => Consistent(Coll'[m])]_vars

\* C6: the store right after a successful UpsertProduct(P) is the store
\* that a second UpsertProduct(P), run next, produces: the second call
\* changes nothing.
C6_IdempotentUpsert ==
  (last.op = "UpsertProduct" /\ ~last.err) => UpsertResult(Coll, last.arg) = Coll

\* A successful upsert of a product that carries a price history onto a
\* stored product with another history.
C6_Witness ==
  /\ last.op = "UpsertProduct" /\ ~last.err /\ last.found
  /\ Len(last.arg.PriceHistory.elems) >= 1
  /\ Coll[FirstMatch(Coll, last.arg.ProductURL)].price_history # last.arg.PriceHistory

\* The scrapers the claimed vendor dispatch calls for a url; for a url with
\* both vendors in it the claim says nothing.
Dispatched(url, calls) ==
  /\ (Contains(url, Flipkart) /\ ~Contains(url, Amazon)) => calls = <<"flipkart">>
  /\ (Contains(url, Amazon) /\ ~Contains(url, Flipkart)) => calls = <<"amazon">>
  /\ (~Contains(url, Amazon) /\ ~Contains(url, Flipkart)) => calls = <<>>

\* C7 (as claimed): every refresh of a product calls exactly the scraper of
\* its vendor, once, and for a url of no vendor calls none and writes
\* nothing.
C7_VendorDispatch ==
  [][/\ (Returns("UpdatePrices") /\ session = "Connect") =>
          /\ Dispatched(last'.arg.ProductURL, last'.calls)
          /\ (~Contains(last'.arg.ProductURL, Amazon)
                /\ ~Contains(last'.arg.ProductURL, Flipkart)) => db' = db
     /\ \A p \in Procs : (BulkTurn(p) /\ Noted(p).outcome # "decode") =>
          /\ Dispatched(Noted(p).url, Noted(p).calls)
          /\ Noted(p).outcome = "vendor" => db' = db]_vars

\* C9: the loop of MongoDB.UpdatePrices handles the products of the scan one
\* by one, in order, and goes on after each: a product that fails (decode,
\* vendor, scrape, parse or write) is left as it was, a product that
\* succeeds gets the parsed price appended; the call returns only when the
\* scan is exhausted, it returns nil, and it has then handled every product
\* of the collection.
C9_BulkNeverHalts ==
  [][\A p \in Procs :
       /\ (pc[p] = "bulk_loop" /\ frame[p].cursor # <<>>) =>
            /\ BulkTurn(p)
            /\ frame'[p].cursor = Tail(frame[p].cursor)
            /\ Noted(p).url = Head(frame[p].cursor).product_url
            /\ IF Noted(p).outcome = "ok"
               THEN AppendedTo(Coll, Coll', Noted(p).url, Appended(Noted(p).priceStr))
               ELSE db' = db
       /\ (pc[p] = "bulk_loop" /\ pc'[p] # "bulk_loop") =>
            /\ frame[p].cursor = <<>>
            /\ last'.op = "UpdatePrices" /\ ~last'.err
            /\ db' = db
            /\ Len(last'.log) = Len(Coll)
            /\ \A i \in 1..Len(Coll) : last'.log[i].url = Coll[i].product_url]_vars

\* A bulk refresh has returned after a product whose price did not parse
\* and a later product whose price was appended.
C9_Witness ==
  /\ last.op = "UpdatePrices" /\ session = "NewMongoDB" /\ ~last.err
  /\ Len(last.log) = 2
  /\ last.log[1].outcome = "parse"
  /\ last.log[2].outcome = "ok"
  /\ Len(Entries(Coll[2])) >= 1

\* C10: the refresh of a product whose url names no vendor is no error and
\* leaves the store as it was: UpdatePrices(user, product) returns nil, and
\* the loop of MongoDB.UpdatePrices goes on to the next product and, at the
\* end, returns nil.
C10_UnsupportedVendorSkipped ==
  [][/\ (Returns("UpdatePrices") /\ session = "Connect"
           /\ ~Contains(last'.arg.ProductURL, Amazon)
           /\ ~Contains(last'.arg.ProductURL, Flipkart)) =>
          (~last'.err /\ ~last'.wrote /\ db' = db)
     /\ \A p \in Procs :
          (pc[p] = "bulk_loop" /\ frame[p].cursor # <<>>
             /\ ~Contains(Head(frame[p].cursor).product_url, Amazon)
             /\ ~Contains(Head(frame[p].cursor).product_url, Flipkart)) =>
            (BulkTurn(p) /\ Noted(p).outcome \in {"vendor", "decode"} /\ db' = db)
     /\ (Returns("UpdatePrices") /\ session = "NewMongoDB" /\ last'.log # <<>>) =>
          ~last'.err]_vars

\* UpdatePrices(user, product) has returned nil for a stored product of no
\* vendor.
C10_Witness ==
  /\ last.op = "UpdatePrices" /\ session = "Connect"
  /\ last.arg.ProductURL = UrlOther
  /\ ~last.err
  /\ FirstMatch(Coll, UrlOther) # 0

\* C5 (as claimed): no two documents of a user's collection have the same
\* product_url.
C5_UniqueUrl ==
  \A u \in Users : \A i, j \in 1..Len(db[u]) :
     i # j => db[u][i].product_url # db[u][j].product_url

\* The products the repair pass is for: those that are not complete, that
\* is whose name or image is empty or whose specifications are none.
Incomplete(doc) ==
  LET product == Decode(doc)
  IN ~(product.ProductName # "" /\ product.ImageURL # ""
         /\ GoLen(product.Specifications) > 0)

\* C8 (as claimed): the scan of the repair pass yields exactly the stored
\* products that are not complete, in the collection it scans.
C8_ScanYieldsIncomplete ==
  \A p \in Procs :
     (pc[p] = "repair_loop" /\ frame[p].log = <<>>) =>
        frame[p].cursor = SelectSeq(db[frame[p].user], Incomplete)

\* C11 (as claimed): a release of a session that is disconnected already
\* completes normally and leaves the session disconnected.
C11_ReleaseIdempotent ==
  [][client = "disconnected" => client' = "disconnected"]_vars

\* C12 (as claimed): AddPrice for a product_url that is not in the
\* collection returns an error and leaves the store unchanged, and AddPrice
\* returns nil only when it has appended a price to a stored history.
C12_AddPriceNotFound ==
  [][Returns("AddPrice") =>
       /\ FirstMatch(Coll, last'.arg.ProductURL) = 0 => (last'.err /\ db' = db)
       /\ ~last'.err =>
            \E i \in 1..Len(Coll) :
               Len(Entries(Coll'[i])) = Len(Entries(Coll[i])) + 1]_vars

\* The first sequence is the beginning of the second.
IsPrefix(s, t) == Len(s) <= Len(t) /\ SubSeq(t, 1, Len(s)) = s

\* C13 (as claimed): no step truncates a stored price_history: whatever
\* the interleaving of an upsert with a refresh or an AddPrice, every price
\* that is stored stays stored, at its place.
C13_NoPriceLost ==
  [][\A i \in 1..Len(Coll) :
       /\ i <= Len(Coll')
       /\ IsPrefix(Entries(Coll[i]), Entries(Coll'[i]))]_vars

\* The stored aggregates of a document bound the values of its history.
Bounded(doc) ==
  \A v \in Values(doc) :
     FieldOr(doc, "min_price", 0) <= v /\ FieldOr(doc, "max_price", 0) >= v

\* C14 (as claimed): a refresh that writes to a product whose aggregates
\* bound its history leaves them bounding it, also when another refresh of
\* the product has written since the caller read its copy.
C14_ConcurrentRefreshBounded ==
  [][(Returns("UpdatePrices") /\ last'.wrote /\ session = "Connect") =>
       \A i \in 1..Len(Coll) : Bounded(Coll[i]) => Bounded(Coll'[i])]_vars

\* C17 (as claimed): every stored price_history is ordered by timestamp,
\* non-decreasing.
C17_TimestampOrder ==
  \A u \in Users : \A i \in 1..Len(db[u]) :
     \A j, k \in 1..Len(Entries(db[u][i])) :
        j < k => Entries(db[u][i])[j].timestamp <= Entries(db[u][i])[k].timestamp

\* C15 (as claimed): a successful refresh of a product whose stored
\* min_price and max_price are not 0 leaves neither of them 0.
C15_SentinelNotReentered ==
  [][(Returns("UpdatePrices") /\ last'.wrote /\ session = "Connect") =>
       LET m == FirstMatch(Coll, last'.arg.ProductURL)
       IN (FieldOr(Coll[m], "min_price", 0) # 0 /\ FieldOr(Coll[m], "max_price", 0) # 0)
            => (FieldOr(Coll'[m], "min_price", 0) # 0
                  /\ FieldOr(Coll'[m], "max_price", 0) # 0)]_vars

\* C16 (as claimed): a refresh in which a price scraper has returned an
\* error writes nothing, whatever string came with the error.
C16_ScrapeErrorSkips ==
  [][/\ (Returns("UpdatePrices") /\ session = "Connect"
           /\ \E k \in 1..Len(last'.log) : last'.log[k]) => db' = db
     /\ \A p \in Procs : (BulkTurn(p) /\ Noted(p).outcome = "scrape") => db' = db]_vars

\* C18 (as claimed): a turn of the loop of the repair pass adds and removes
\* no document and changes, in the documents it keeps, nothing but
\* product_name, image_url and specifications of a product that was not
\* complete: product_url, price_history and the aggregates stay.
C18_RepairPreserves ==
  [][\A p \in Procs : (pc[p] = "repair_loop" /\ frame[p].cursor # <<>>) =>
       LET before == db[frame[p].user]
           after == db'[frame[p].user]
       IN /\ Len(after) = Len(before)
          /\ \A i \in 1..Len(before) :
               /\ after[i] # before[i] => Incomplete(before[i])
               /\ \A f \in {"product_url", "price_history", "min_price", "max_price"} :
                     FieldOf(after[i], f) = FieldOf(before[i], f)]_vars

\* One turn of the loop of UpdateIncompleteRecords.
RepairTurn(p) ==
  /\ pc'[p] = "repair_loop"
  /\ frame'[p].cursor = Tail(frame[p].cursor)
  /\ Len(frame'[p].log) = Len(frame[p].log) + 1
  /\ Noted(p).url = Head(frame[p].cursor).product_url

\* C19: the repair pass, once its scan is open, takes one turn for each
\* product of the scan, in order, whatever the outcome of the turn (decode
\* error, scrape error, upsert error, success); it returns only when the
\* scan is exhausted, and then returns nil; and it does return.
C19_RepairCompletes ==
  /\ [][\A p \in Procs :
         /\ (pc[p] # "repair_loop" /\ pc'[p] = "repair_loop") =>
              (frame'[p].log = <<>>
                 /\ frame'[p].cursor = FindIncomplete(db[frame'[p].user]))
         /\ (pc[p] = "repair_loop" /\ frame[p].cursor # <<>>) => RepairTurn(p)
         /\ (pc[p] = "repair_loop" /\ pc'[p] # "repair_loop") =>
              /\ frame[p].cursor = <<>>
              /\ last'.op = "UpdateIncompleteRecords" /\ ~last'.err
              /\ last'.log = frame[p].log
              /\ db' = db]_vars
  /\ \A p \in Procs :
        (pc[p] = "repair_loop") ~> (last.op = "UpdateIncompleteRecords" /\ ~last.err)

\* A repair pass has returned after a product whose details could not be
\* scraped and a later product that it repaired.
C19_Witness ==
  /\ last.op = "UpdateIncompleteRecords" /\ ~last.err
  /\ Len(last.log) = 2
  /\ last.log[1].outcome = "scrape"
  /\ last.log[2].outcome = "ok"
  /\ ~IncompleteFilter(db[RepairUser][2])

\* C20 (as claimed, for the writes): no operation called for a user changes
\* the collection of another user.
C20_UserIsolation ==
  [][\A u \in Users : u # username => db'[u] = db[u]]_vars

====
